---------------------------- MODULE Spec2Model ----------------------------
(***************************************************************************)
(* The Mann-Kendall trend test of src/mkt.py, function test(t, x, precx,   *)
(* alpha, Ha), as a state machine: one call per behaviour, one action per  *)
(* block of the function body.                                             *)
(*                                                                         *)
(* Number representation (floats are modelled in fixed point):             *)
(*   measurements x, precx, slope m, intercept c : millionths (Micro)      *)
(*   alpha and the argument of ndtri             : thousandths             *)
(*   Z-scores (Zmk, Z_)                          : hundredths, truncated   *)
(*   probabilities (ndtr, p)                     : hundred-thousandths     *)
(*   varS                                        : eighteenths (term1-term2)*)
(* A float is a record [k, v]: k = "num" (value v), "nan", "inf" (sign v). *)
(* A local variable that no statement has assigned yet is Unbound.         *)
(***************************************************************************)
EXTENDS Integers, Sequences, FiniteSets, TLC

\* Longest series drawn exhaustively.
MaxN == 4
\* Largest measurement drawn exhaustively, in half units (0, 0.5, ..., MaxVal/2).
MaxVal == 2

\* One unit of a measurement, in the fixed-point representation.
Micro == 1000 * 1000
\* One unit of a probability returned by ndtr.
PUnit == 100 * 1000

Num(v) == [k |-> "num", v |-> v]
NaN == [k |-> "nan", v |-> 0]
Inf(s) == [k |-> "inf", v |-> s]
Unbound == [k |-> "unbound", v |-> 0]
None == [k |-> "None", v |-> 0]

Abs(a) == IF a < 0 THEN -a ELSE a
Sign(a) == IF a > 0 THEN 1 ELSE IF a < 0 THEN -1 ELSE 0

RECURSIVE SumSeq(_)
SumSeq(s) == IF s = <<>> THEN 0 ELSE Head(s) + SumSeq(Tail(s))

---------------------------------------------------------------------------
(* Float arithmetic and comparison, with nan and the infinities.           *)

\* a >= b on floats: any comparison with nan is False.
Ge(a, b) ==
    IF a.k = "nan" \/ b.k = "nan" THEN FALSE
    ELSE IF a.k = "inf" THEN (a.v = 1 \/ (b.k = "inf" /\ b.v = -1))
    ELSE IF b.k = "inf" THEN b.v = -1
    ELSE a.v >= b.v

Le(a, b) == Ge(b, a)

\* -a
Neg(a) == IF a.k = "nan" THEN NaN ELSE [k |-> a.k, v |-> -a.v]

\* np.fabs(a)
Fabs(a) == IF a.k = "nan" THEN NaN ELSE [k |-> a.k, v |-> Abs(a.v)]

\* The largest r in lo..hi with r*r <= v (lo satisfies it): floor(sqrt(v)).
RECURSIVE SqrtSearch(_, _, _)
SqrtSearch(lo, hi, v) ==
    IF lo >= hi THEN lo
    ELSE LET mid == (lo + hi + 1) \div 2
         IN IF mid * mid <= v
            THEN SqrtSearch(mid, hi, v)
            ELSE SqrtSearch(lo, mid - 1, v)

\* a / np.sqrt(v18 / 18.) in hundredths, for an integer a and the variance
\* in eighteenths: sqrt of a negative number is nan, a division by 0.0 is
\* an infinity or nan (numpy warns and goes on).
DivSqrt(a, v18) ==
    IF v18 < 0 THEN NaN
    ELSE IF v18 = 0 THEN (IF a = 0 THEN NaN ELSE Inf(Sign(a)))
    ELSE Num(Sign(a) * SqrtSearch(0, 500 * Abs(a), (a * a * 18 * 10000) \div v18))

\* scipy.special.ndtr on the grid 0.0, 0.1, ..., 4.0.
PhiTab ==
    << 50000, 53983, 57926, 61791, 65542, 69146, 72575, 75804, 78814, 81594,
       84134, 86433, 88493, 90320, 91924, 93319, 94520, 95543, 96407, 97128,
       97725, 98214, 98610, 98928, 99180, 99379, 99534, 99653, 99744, 99813,
       99865, 99903, 99931, 99952, 99966, 99977, 99984, 99989, 99993, 99995,
       99997 >>

\* ndtr for z >= 0 in hundredths: the table, interpolated linearly.
PhiPos(z) ==
    IF z >= 400 THEN PhiTab[41]
    ELSE LET g == z \div 10
             r == z % 10
         IN PhiTab[g + 1] + ((PhiTab[g + 2] - PhiTab[g + 1]) * r) \div 10

\* scipy.special.ndtr: the standard normal cumulative distribution function.
ndtr(z) ==
    IF z.k = "nan" THEN NaN
    ELSE IF z.k = "inf" THEN Num(IF z.v = 1 THEN PUnit ELSE 0)
    ELSE IF z.v >= 0 THEN Num(PhiPos(z.v))
    ELSE Num(PUnit - PhiPos(-z.v))

\* scipy.special.ndtri: the standard normal quantile function, at the
\* probabilities (in thousandths) the calls of this model can ask for.
ndtri(pm) ==
    IF pm < 0 \/ pm > 1000 THEN NaN
    ELSE IF pm = 0 THEN Inf(-1)
    ELSE IF pm = 1000 THEN Inf(1)
    ELSE CASE pm = 500 -> Num(0)
           [] pm = 750 -> Num(67)
           [] pm = 950 -> Num(164)
           [] pm = 975 -> Num(196)

\* 1. - a on probabilities
OneMinus(a) == IF a.k = "nan" THEN NaN ELSE Num(PUnit - a.v)

\* 0.5 * a on probabilities
HalfOf(a) == IF a.k = "nan" THEN NaN ELSE Num(a.v \div 2)

---------------------------------------------------------------------------
(* The call: the caller's arrays t and x, the arguments, and the frame of  *)
(* test (its position pc, its locals, the exception it raised).            *)

VARIABLES
    t,      \* the caller's array of time points
    x,      \* the caller's array of measurements (millionths)
    precx,  \* argument: least count error (millionths), or None
    alpha,  \* argument: significance level (thousandths), or None
    Ha,     \* argument: alternative hypothesis, a string ("None" for None)
    pc,     \* position in the body of test
    loc,    \* the locals of test
    exc     \* the exception raised, "none" while there is none

vars == <<t, x, precx, alpha, Ha, pc, loc, exc>>

\* The locals before the first statement: nothing is assigned.
NoLocals ==
    [n |-> 0, i |-> 0, tmp |-> <<>>, sgn |-> <<>>, S |-> 0, ties |-> <<>>,
     q |-> <<>>, p |-> Unbound, term1 |-> 0, term2 |-> 0, varS |-> 0,
     Zmk |-> Unbound, Z_ |-> Unbound, MK |-> "unbound", m |-> Unbound,
     c |-> Unbound]

\* A call of test as one value.
Frame(t_, x_, precx_, alpha_, Ha_) ==
    [t |-> t_, x |-> x_, precx |-> precx_, alpha |-> alpha_, Ha |-> Ha_,
     pc |-> "validate", loc |-> NoLocals, exc |-> "none"]

Raise(f, e) == [f EXCEPT !.pc = "raised", !.exc = e]

\* Python truth of an argument: None and 0 are false.
Truthy(a) == a.k = "num" /\ a.v # 0

\* Lines 118-120: the three assertions.
Validate(f) ==
    IF ~Truthy(f.precx) THEN Raise(f, "AssertionError")
    ELSE IF ~Truthy(f.alpha) THEN Raise(f, "AssertionError")
    ELSE IF f.Ha \in {"None", ""} THEN Raise(f, "AssertionError")
    ELSE [f EXCEPT !.pc = "setup"]

\* Setup with n taken as the number of distinct time points.
SetupDistinct(f) ==
    LET n == Cardinality({f.t[k] : k \in 1..Len(f.t)})
    IN [f EXCEPT !.loc.n = n,
                 !.loc.sgn = [r \in 1..n |-> [k \in 1..n |-> 0]],
                 !.loc.i = 1,
                 !.pc = IF n = 0 THEN "sum" ELSE "signs"]

\* Lines 123-124: n = len(t), sgn = np.zeros((n, n)).
Setup(f) ==
    LET n == Len(f.t)
    IN [f EXCEPT !.loc.n = n,
                 !.loc.sgn = [r \in 1..n |-> [k \in 1..n |-> 0]],
                 !.loc.i = 1,
                 !.pc = IF n = 0 THEN "sum" ELSE "signs"]

\* Line 126: tmp = x - x[i], a new array.
Diff(x_, i) == [k \in 1..Len(x_) |-> x_[k] - x_[i]]

\* Snap with the comparison taken as <=.
SnapInclusive(tmp, precx_) ==
    [k \in 1..Len(tmp) |-> IF Abs(tmp[k]) <= precx_ THEN 0 ELSE tmp[k]]

\* Line 127: tmp[np.where(np.fabs(tmp) < precx)] = 0.
Snap(tmp, precx_) ==
    [k \in 1..Len(tmp) |-> IF Abs(tmp[k]) < precx_ THEN 0 ELSE tmp[k]]

\* SignRow with tmp a view of x (tmp = x; tmp -= x[i]) instead of a new array.
SignRowInPlace(f) ==
    LET i == f.loc.i
        n == f.loc.n
    IN IF i > Len(f.x) THEN Raise(f, "IndexError")
       ELSE LET tmp == [k \in 1..Len(f.x) |->
                           IF Abs(f.x[k] - f.x[i]) < f.precx.v THEN 0
                           ELSE f.x[k] - f.x[i]]
                g == [f EXCEPT !.loc.tmp = tmp, !.x = tmp]
            IN IF Len(tmp) # n /\ Len(tmp) # 1
               THEN Raise(g, "ValueError")
               ELSE [g EXCEPT
                       !.loc.sgn[i] = [k \in 1..n |-> Sign(tmp[k])],
                       !.loc.i = i + 1,
                       !.pc = IF i = n THEN "sum" ELSE "signs"]

\* Lines 125-128: one iteration of the loop over the rows of sgn.
SignRow(f) ==
    LET i == f.loc.i
        n == f.loc.n
    IN IF i > Len(f.x) THEN Raise(f, "IndexError")
       ELSE LET tmp == Snap(Diff(f.x, i), f.precx.v)
                g == [f EXCEPT !.loc.tmp = tmp]
            IN IF Len(tmp) # n /\ Len(tmp) # 1
               THEN Raise(g, "ValueError")
               ELSE [g EXCEPT
                       !.loc.sgn[i] =
                           [k \in 1..n |->
                               Sign(tmp[IF Len(tmp) = 1 THEN 1 ELSE k])],
                       !.loc.i = i + 1,
                       !.pc = IF i = n THEN "sum" ELSE "signs"]

\* Line 131: S = sgn[np.triu_indices(n, k=1)].sum()
SumUpper(sgn, n) ==
    SumSeq([r \in 1..n |-> SumSeq([k \in 1..n |-> IF r < k THEN sgn[r][k] ELSE 0])])

Statistic(f) ==
    [f EXCEPT !.loc.S = SumUpper(f.loc.sgn, f.loc.n), !.pc = "ties"]

\* The elements of a set of integers in increasing order (np.unique).
RECURSIVE Sorted(_)
Sorted(s) ==
    IF s = {} THEN <<>>
    ELSE LET lo == CHOOSE a \in s : \A b \in s : a <= b
         IN <<lo>> \o Sorted(s \ {lo})

\* Line 135: np.fill_diagonal(sgn, precx * 1E6), truncated into the int array.
FillDiagonal(sgn, n, precx_) ==
    [r \in 1..n |-> [k \in 1..n |-> IF r = k THEN precx_ ELSE sgn[r][k]]]

\* Lines 136-137: the values of x in the rows of sgn that hold a zero.
Ties(sgn, n, x_) ==
    Sorted({x_[r] : r \in {r \in 1..n : \E k \in 1..n : sgn[r][k] = 0}})

\* Lines 140-142: q[k] = the number of values within precx of ties[k].
TieSizes(ties, x_, precx_) ==
    [k \in 1..Len(ties) |->
        Cardinality({j \in 1..Len(x_) : Abs(x_[j] - ties[k]) < precx_})]

\* Lines 135-142: the tie groups.
TieGroups(f) ==
    LET sgn == FillDiagonal(f.loc.sgn, f.loc.n, f.precx.v)
        ties == Ties(sgn, f.loc.n, f.x)
    IN [f EXCEPT !.loc.sgn = sgn,
                 !.loc.ties = ties,
                 !.loc.p = Num(Len(ties)),
                 !.loc.q = TieSizes(ties, f.x, f.precx.v),
                 !.pc = "var"]

\* Line 144
Term1(n) == n * (n - 1) * (2 * n + 5)

\* Line 145
Term2(q) == SumSeq([k \in 1..Len(q) |-> q[k] * (q[k] - 1) * (2 * q[k] + 5)])

\* Lines 144-147: varS = float(term1 - term2) / 18., kept in eighteenths.
Variance(f) ==
    LET term1 == Term1(f.loc.n)
        term2 == Term2(f.loc.q)
    IN [f EXCEPT !.loc.term1 = term1, !.loc.term2 = term2,
                 !.loc.varS = term1 - term2, !.pc = "zscore"]

\* Lines 150, 152, 154: which branch the tests on S select.
Region(S, precx_) ==
    IF S * Micro - precx_ > 0 THEN "positive"
    ELSE IF S * Micro - precx_ = 0 THEN "zero"
    ELSE IF S * Micro + precx_ < 0 THEN "negative"
    ELSE "none"

\* Lines 150-155: the Z-score; no branch assigns it in region "none".
ZScore(f) ==
    LET r == Region(f.loc.S, f.precx.v)
    IN [f EXCEPT
          !.loc.Zmk = CASE r = "positive" -> DivSqrt(f.loc.S - 1, f.loc.varS)
                        [] r = "zero" -> Num(0)
                        [] r = "negative" -> DivSqrt(f.loc.S + 1, f.loc.varS)
                        [] OTHER -> @,
          !.pc = "verdict"]

\* Lines 163, 170, 177: the argument of ndtri, in thousandths.
CriticalP(alpha_, Ha_) ==
    IF Ha_ = "upordown" THEN 1000 - alpha_ \div 2 ELSE 1000 - alpha_

\* Lines 164, 171, 178: whether the alternative hypothesis is accepted.
Accepts(Ha_, Zmk, Z_) ==
    CASE Ha_ = "up" -> Ge(Zmk, Z_)
      [] Ha_ = "down" -> Le(Zmk, Neg(Z_))
      [] Ha_ = "upordown" -> Ge(Fabs(Zmk), Z_)

\* The verdict strings of lines 165-181.
Message(Ha_, accept) ==
    (IF accept THEN "accept" ELSE "reject") \o " Ha := " \o
    (CASE Ha_ = "up" -> "upward trend"
       [] Ha_ = "down" -> "downward trend"
       [] Ha_ = "upordown" -> "upward OR downward trend")

\* Lines 162-181: the verdict; an unrecognized Ha matches no branch, and a
\* Z-score that no branch assigned cannot be read.
Verdict(f) ==
    IF f.Ha \notin {"up", "down", "upordown"} THEN [f EXCEPT !.pc = "fit"]
    ELSE LET g == [f EXCEPT !.loc.Z_ = ndtri(CriticalP(f.alpha.v, f.Ha))]
         IN IF f.loc.Zmk.k = "unbound" THEN Raise(g, "UnboundLocalError")
            ELSE [g EXCEPT
                    !.loc.MK = Message(f.Ha, Accepts(f.Ha, f.loc.Zmk, g.loc.Z_)),
                    !.pc = "fit"]

Constant(s) == \A k \in 1..Len(s) : s[k] = s[1]

\* Line 187: m = np.corrcoef(t, x)[0, 1] * (np.std(x) / np.std(t)), which is
\* cov(t, x) / var(t); nan when t or x has no spread.
Slope(t_, x_) ==
    LET n == Len(t_)
        st == SumSeq(t_)
        sx == SumSeq(x_)
        stx == SumSeq([k \in 1..n |-> t_[k] * x_[k]])
        stt == SumSeq([k \in 1..n |-> t_[k] * t_[k]])
    IN IF Constant(t_) \/ Constant(x_) THEN NaN
       ELSE Num((n * stx - st * sx) \div (n * stt - st * st))

\* Line 188: c = np.mean(x) - m * np.mean(t)
Intercept(t_, x_, m) ==
    IF m.k = "nan" THEN NaN
    ELSE Num((SumSeq(x_) - m.v * SumSeq(t_)) \div Len(t_))

\* Lines 187-188: the least-squares line.
LinearFit(f) ==
    LET m == Slope(f.t, f.x)
    IN [f EXCEPT !.loc.m = m, !.loc.c = Intercept(f.t, f.x, m), !.pc = "pvalue"]

\* PBranch with the two-sided p-value not halved.
PBranchUnhalved(r, Ha_, Zmk, p) ==
    CASE r = "zero" -> Num(PUnit \div 2)
      [] r \in {"positive", "negative"} /\ Ha_ = "up" -> OneMinus(ndtr(Zmk))
      [] r \in {"positive", "negative"} /\ Ha_ = "down" -> ndtr(Zmk)
      [] r = "positive" /\ Ha_ = "upordown" -> OneMinus(ndtr(Zmk))
      [] r = "negative" /\ Ha_ = "upordown" -> ndtr(Zmk)
      [] OTHER -> p

\* Lines 194-209: the p-value of one region and one alternative; p keeps
\* its value where no branch matches.
PBranch(r, Ha_, Zmk, p) ==
    CASE r = "zero" -> Num(PUnit \div 2)
      [] r = "positive" /\ Ha_ = "up" -> OneMinus(ndtr(Zmk))
      [] r = "positive" /\ Ha_ = "down" -> ndtr(Zmk)
      [] r = "positive" /\ Ha_ = "upordown" -> HalfOf(OneMinus(ndtr(Zmk)))
      [] r = "negative" /\ Ha_ = "up" -> OneMinus(ndtr(Zmk))
      [] r = "negative" /\ Ha_ = "down" -> ndtr(Zmk)
      [] r = "negative" /\ Ha_ = "upordown" -> HalfOf(ndtr(Zmk))
      [] OTHER -> p

PValue(f) ==
    [f EXCEPT
       !.loc.p = PBranch(Region(f.loc.S, f.precx.v), f.Ha, f.loc.Zmk, @),
       !.pc = "return"]

\* Line 211: return MK, m, c, p
Return(f) ==
    IF f.loc.MK = "unbound" THEN Raise(f, "UnboundLocalError")
    ELSE [f EXCEPT !.pc = "done"]

Terminal(f) == f.pc \in {"done", "raised"}

\* The statement at f.pc.
Step(f) ==
    CASE f.pc = "validate" -> Validate(f)
      [] f.pc = "setup" -> Setup(f)
      [] f.pc = "signs" -> SignRow(f)
      [] f.pc = "sum" -> Statistic(f)
      [] f.pc = "ties" -> TieGroups(f)
      [] f.pc = "var" -> Variance(f)
      [] f.pc = "zscore" -> ZScore(f)
      [] f.pc = "verdict" -> Verdict(f)
      [] f.pc = "fit" -> LinearFit(f)
      [] f.pc = "pvalue" -> PValue(f)
      [] f.pc = "return" -> Return(f)

\* The whole call: the frame when test has returned or raised.
RECURSIVE Run(_)
Run(f) == IF Terminal(f) THEN f ELSE Run(Step(f))

test(t_, x_, precx_, alpha_, Ha_) == Run(Frame(t_, x_, precx_, alpha_, Ha_))

---------------------------------------------------------------------------
(* The calls the model makes.                                              *)

Half == Micro \div 2

\* Measurements: every series of 2..MaxN values on the half-unit grid.
Series == UNION {[1..len -> {k * Half : k \in 0..MaxVal}] : len \in 2..MaxN}

\* Time vectors for a series of length len: evenly spaced, unevenly spaced
\* with a duplicate time point, and one of another length.
Even(len) == [k \in 1..len |-> k - 1]
Uneven(len) == [k \in 1..len |-> IF k <= 2 THEN 0 ELSE k * k]
Times(len) == {Even(len), Uneven(len), Even(len + 1)}

\* precx: absent, 0, 1e-6, 0.5, 1.0, -1.0
Precisions == {None, Num(0), Num(1), Num(Half), Num(Micro), Num(-Micro)}

\* alpha: absent, 0, 0.05, 0.5, 1.0
Levels == {None, Num(0), Num(50), Num(500), Num(1000)}

Alternatives == {"None", "up", "down", "upordown", "sideways"}

\* The documented scenario: t = x = [0, 1, 2, 3, 4], precx = 1e-6,
\* alpha = 0.05, two-sided.
ScenarioT == Even(5)
ScenarioX == [k \in 1..5 |-> (k - 1) * Micro]

Init ==
    /\ \/ /\ x \in Series
          /\ t \in Times(Len(x))
          /\ precx \in Precisions
          /\ alpha \in Levels
          /\ Ha \in Alternatives
       \/ /\ x = ScenarioX
          /\ t = ScenarioT
          /\ precx = Num(1)
          /\ alpha = Num(50)
          /\ Ha \in {"up", "down", "upordown"}
    /\ pc = "validate"
    /\ loc = NoLocals
    /\ exc = "none"

\* The frame of the call in the current state.
Cur ==
    [t |-> t, x |-> x, precx |-> precx, alpha |-> alpha, Ha |-> Ha,
     pc |-> pc, loc |-> loc, exc |-> exc]

\* The call takes the step `g`: the arguments are passed by value and stay,
\* the arrays t and x are the caller's objects.
Becomes(g) ==
    /\ t' = g.t
    /\ x' = g.x
    /\ pc' = g.pc
    /\ loc' = g.loc
    /\ exc' = g.exc
    /\ UNCHANGED <<precx, alpha, Ha>>

DoValidate == pc = "validate" /\ Becomes(Validate(Cur))
DoSetup == pc = "setup" /\ Becomes(Setup(Cur))
DoSignRow == pc = "signs" /\ Becomes(SignRow(Cur))
DoStatistic == pc = "sum" /\ Becomes(Statistic(Cur))
DoTieGroups == pc = "ties" /\ Becomes(TieGroups(Cur))
DoVariance == pc = "var" /\ Becomes(Variance(Cur))
DoZScore == pc = "zscore" /\ Becomes(ZScore(Cur))
DoVerdict == pc = "verdict" /\ Becomes(Verdict(Cur))
DoLinearFit == pc = "fit" /\ Becomes(LinearFit(Cur))
DoPValue == pc = "pvalue" /\ Becomes(PValue(Cur))
DoReturn == pc = "return" /\ Becomes(Return(Cur))

Next ==
    \/ DoValidate
    \/ DoSetup
    \/ DoSignRow
    \/ DoStatistic
    \/ DoTieGroups
    \/ DoVariance
    \/ DoZScore
    \/ DoVerdict
    \/ DoLinearFit
    \/ DoPValue
    \/ DoReturn

Spec == Init /\ [][Next]_vars

---------------------------------------------------------------------------
(* Vocabulary of the properties.                                           *)

Returned == pc = "done"
Raised == pc = "raised"
Finished == Returned \/ Raised

\* The statement that assigns S (line 131) has run.
SComputed ==
    pc \in {"ties", "var", "zscore", "verdict", "fit", "pvalue", "return", "done"}
        \/ (Raised /\ exc = "UnboundLocalError")

\* The tie groups (lines 135-142) have been built.
TiesComputed == SComputed /\ pc # "ties"

\* varS (line 147) has been computed.
VarComputed == TiesComputed /\ pc # "var"

\* The statement of lines 150-155 has run.
ZComputed == VarComputed /\ pc # "zscore"

\* The statement of lines 194-209 has run.
PComputed == pc \in {"return", "done"} \/ (Raised /\ loc.m # Unbound)

Pairs(len) == {w \in (1..len) \X (1..len) : w[1] < w[2]}

\* x rises (d = 1) or falls (d = -1) strictly, by at least tol at every pair.
Monotone(x_, tol, d) ==
    \A w \in Pairs(Len(x_)) :
        /\ d * (x_[w[2]] - x_[w[1]]) > 0
        /\ Abs(x_[w[2]] - x_[w[1]]) >= tol

\* Every pair of x is a tie: all values are equal within tol.
AllTied(x_, tol) == \A w \in Pairs(Len(x_)) : Abs(x_[w[2]] - x_[w[1]]) < tol

\* The arguments the contract admits: tolerance > 0, 0 < alpha < 1, one of
\* the three alternatives, t and x of one length.
GoodArgs ==
    /\ precx.k = "num" /\ precx.v > 0
    /\ alpha.k = "num" /\ alpha.v > 0 /\ alpha.v < 1000
    /\ Ha \in {"up", "down", "upordown"}
    /\ Len(t) = Len(x)

Scenario ==
    /\ t = ScenarioT /\ x = ScenarioX
    /\ precx = Num(1) /\ alpha = Num(50) /\ Ha = "upordown"

\* C1: for a strictly increasing series whose pairwise differences are all at
\* least the tolerance, the statistic S is n(n-1)/2; for such a strictly
\* decreasing series it is -n(n-1)/2.
C1_MonotoneStatistic ==
    (SComputed /\ precx.k = "num") =>
        /\ Monotone(x, precx.v, 1) => 2 * loc.S = Len(x) * (Len(x) - 1)
        /\ Monotone(x, precx.v, -1) => 2 * loc.S = -(Len(x) * (Len(x) - 1))

\* A rising series of three or more values, with a tolerance that some
\* difference meets exactly, has been summed.
C1_Witness ==
    /\ Returned /\ Len(x) >= 3 /\ precx.v > 0 /\ Monotone(x, precx.v, 1)
    /\ \E w \in Pairs(Len(x)) : x[w[2]] - x[w[1]] = precx.v

\* C2 (as claimed): for a series whose values are all equal within the
\* tolerance, and each alternative, test computes S = 0 and Z = 0 and
\* returns p = 0.5.
C2_ConstantSeries ==
    (GoodArgs /\ AllTied(x, precx.v) /\ Finished) =>
        /\ Returned
        /\ loc.S = 0
        /\ loc.Zmk = Num(0)
        /\ loc.p = Num(PUnit \div 2)

\* C3 (as claimed): in the documented scenario test computes S = 10 and
\* varS = 300/18, takes Z = (S-1)/sqrt(varS) = 2.20, which reaches the
\* critical value 1.96, accepts the two-sided alternative, and returns
\* p = 1 - Phi(Z), about 0.0139.
C3_ScenarioAsClaimed ==
    (Scenario /\ Finished) =>
        /\ Returned
        /\ loc.S = 10 /\ loc.varS = 300
        /\ Region(loc.S, precx.v) = "positive"
        /\ loc.Zmk = Num(220) /\ loc.Z_ = Num(196) /\ Ge(loc.Zmk, loc.Z_)
        /\ loc.MK = "accept Ha := upward OR downward trend"
        /\ loc.p = OneMinus(ndtr(loc.Zmk))
        /\ loc.p.v \in 1370..1395

\* C3 (amended): as above, but the p-value returned is 0.5 * (1 - Phi(Z)),
\* about 0.0069.
C3_Scenario ==
    (Scenario /\ Finished) =>
        /\ Returned
        /\ loc.S = 10 /\ loc.varS = 300
        /\ Region(loc.S, precx.v) = "positive"
        /\ loc.Zmk = Num(220) /\ loc.Z_ = Num(196) /\ Ge(loc.Zmk, loc.Z_)
        /\ loc.MK = "accept Ha := upward OR downward trend"
        /\ 2 * loc.p.v = PUnit - ndtr(loc.Zmk).v
        /\ loc.p.v \in 685..698

\* The scenario has run to its return.
C3_Witness == Scenario /\ Returned /\ loc.p.k = "num"

\* -x
Negated(x_) == [k \in 1..Len(x_) |-> -x_[k]]

\* C4 (as claimed): for admissible arguments, test(t, x, tol, alpha, "up")
\* and test(t, -x, tol, alpha, "down") mirror each other: one returns iff
\* the other does, and one accepts the upward trend iff the other accepts
\* the downward trend.
C4_MirrorVerdicts ==
    (GoodArgs /\ Ha = "up" /\ Finished) =>
        LET r == test(t, Negated(x), precx, alpha, "down")
        IN /\ Returned <=> r.pc = "done"
           /\ (Returned /\ loc.MK = "accept Ha := upward trend")
                <=> (r.pc = "done" /\ r.loc.MK = "accept Ha := downward trend")

\* C5 (as claimed): a call with an absent, zero or negative tolerance, an
\* absent alpha or one outside (0, 1), an absent or unrecognized alternative,
\* or t and x of different lengths fails in validation, before any numeric
\* work.
C5_InvalidArguments ==
    (~GoodArgs /\ Finished) =>
        /\ Raised
        /\ exc = "AssertionError"
        /\ loc = NoLocals

\* C6: no step of test changes the caller's arrays t and x, whether the
\* call returns or raises.
C6_InputsUnchanged == [][t' = t /\ x' = x]_vars

\* A call has returned after snapping a nonzero difference of its working
\* copy to zero and overwriting the diagonal of the sign matrix.
C6_Witness ==
    /\ Returned
    /\ \E k \in 1..Len(x) : loc.tmp[k] = 0 /\ x[k] # x[Len(x)]
    /\ \A k \in 1..Len(x) : loc.sgn[k][k] = precx.v

\* Time vectors of one length: evenly spaced, uneven with a duplicate,
\* all equal, and decreasing.
OtherTimes(len) ==
    {Even(len), Uneven(len), [k \in 1..len |-> 7], [k \in 1..len |-> 3 * (len - k)]}

\* What a call computes for the test itself (not the fitted line).
Outcome(f) ==
    <<f.pc, f.exc, f.loc.S, f.loc.varS, f.loc.Zmk, f.loc.MK, f.loc.p>>

\* C7: with t and x of one length, S, varS, Z, the verdict and the p-value
\* (or the exception raised) do not depend on the values in t.
C7_TimeIndependence ==
    (Len(t) = Len(x) /\ Finished) =>
        \A t2 \in OtherTimes(Len(t)) :
            Outcome(test(t2, x, precx, alpha, Ha)) = Outcome(Cur)

\* A call on unevenly spaced times with a duplicate has returned, and its
\* fitted slope differs from the one for evenly spaced times.
C7_Witness ==
    /\ Returned /\ t = Uneven(Len(x)) /\ Len(x) >= 3
    /\ test(Even(Len(x)), x, precx, alpha, Ha).loc.m # loc.m

\* C8 (as claimed): for every S and every tolerance > 0 exactly one branch
\* applies: Z = (S-1)/sqrt(varS) iff S > tol, Z = 0 and p = 0.5 iff
\* |S| <= tol, Z = (S+1)/sqrt(varS) iff S < -tol; Z is never left unassigned.
C8_BranchesExhaustive ==
    (precx.k = "num" /\ precx.v > 0 /\ ZComputed) =>
        /\ loc.Zmk # Unbound
        /\ loc.S * Micro > precx.v => loc.Zmk = DivSqrt(loc.S - 1, loc.varS)
        /\ Abs(loc.S) * Micro <= precx.v =>
              loc.Zmk = Num(0) /\ (PComputed => loc.p = Num(PUnit \div 2))
        /\ loc.S * Micro < -precx.v => loc.Zmk = DivSqrt(loc.S + 1, loc.varS)

\* The observations counted in tie group k.
Group(k) == {j \in 1..Len(x) : Abs(x[j] - loc.ties[k]) < precx.v}

\* C9 (as claimed): the tie groups partition the tied observations: no
\* observation is in two groups, the members of a group are pairwise within
\* the tolerance, and the group sizes add up to at most n.
C9_TieGroupsPartition ==
    (precx.k = "num" /\ precx.v > 0 /\ TiesComputed) =>
        /\ \A k, l \in 1..Len(loc.ties) : k # l => Group(k) \cap Group(l) = {}
        /\ \A k \in 1..Len(loc.ties) :
              \A a, b \in Group(k) : Abs(x[a] - x[b]) < precx.v
        /\ SumSeq(loc.q) <= loc.n

\* C10 (as claimed): when at least one pair of values differs by the
\* tolerance or more, varS > 0.
C10_VariancePositive ==
    (precx.k = "num" /\ precx.v > 0 /\ VarComputed /\ Len(x) >= 2
        /\ ~AllTied(x, precx.v)) => loc.varS > 0

=============================================================================
